---- MODULE Spec2Model ----
(***************************************************************************)
(* Model of the data fetcher of R/downloaddata.R: get_midas_servers,       *)
(* fetch_data_one (with its self-invocation) on a cache directory, a       *)
(* manifest and a set of servers whose answers are not under the           *)
(* program's control.                                                      *)
(*                                                                         *)
(* File contents are abstract values; tools::md5sum is an injective        *)
(* digest of them (collisions are not modelled).  A download is an         *)
(* external call: it either succeeds and stores whatever bytes the server  *)
(* sent, or raises an error that try() swallows, and then the target path  *)
(* is left as the transport left it (untouched, missing, or holding a      *)
(* partial / error page).  Manifest entries carry their hash in the        *)
(* md5sum field, the only one this script reads.                           *)
(*                                                                         *)
(* Further specifications in this module: two concurrent invocations of    *)
(* fetch_data_one (SpecRace), the ReadImage override of                    *)
(* R/setup_for_testing.R (SpecSess), run.sh and the docker daemon          *)
(* (SpecDock), and show_inline of R/viewing.R (SpecView).  Each of them    *)
(* keeps the variables of the others at a fixed value.                     *)
(***************************************************************************)
EXTENDS Integers, Sequences, FiniteSets, TLC

VARIABLES
  manifest,   \* the parsed manifest file: name -> record
  stores,     \* ExternalData_OBJECT_STORES as the list of its directories
  fs,         \* the cache directory: path -> contents or Absent
  dirs,       \* whether dirname(outfile) exists
  stack,      \* activations of fetch_data_one, the running one last
  attempts,   \* URLs handed to download.file by the current top-level call
  result,     \* how the current top-level call ended
  errmsg,     \* the URL list in the message of stop()
  fs0, dirs0, \* cache and directory as they were when the call was made
  args,       \* arguments of the current top-level call
  nested,     \* self-invocations made by the current top-level call
  sawWrong,   \* a server sent bytes with another md5sum during the call
  calls,      \* top-level calls made so far
  unpackLog,  \* what the unpack steps of the current top-level call met and did
  all,        \* the running fetch_data_all: status, keys left, calls made
  race,       \* two concurrent fetch_data_one invocations on one cache
  rsess,      \* an R session: environment variable, binding of ReadImage
  dock,       \* the docker daemon and the invocations of run.sh
  view        \* show_inline: image, repr options, drawing

fetchVars == <<manifest, stores, fs, dirs, stack, attempts, result, errmsg,
               fs0, dirs0, args, nested, sawWrong, calls, unpackLog, all>>
otherVars == <<race, rsess, dock, view>>
vars == <<fetchVars, otherVars>>

(* ------------------------------ bounds --------------------------------- *)
MaxStores == 2
MaxCalls == 2
MaxDepth == 3

(* ------------------------------ values --------------------------------- *)
NULL == "NULL"
NA == "NA"
Absent == "absent"

Keys == {"img"}
Names == Keys \cup {"nokey"}

\* contents a server can send: a plain file, tar archives with and without a
\* member named like the target, a zip archive with such a member
Served == {"plainA", "tarWith", "tarWithout", "zipWith"}
Contents == Served \cup {"errpage", "member", "other"}

Out(n) == <<n, "out">>
Tmp(n) == <<n, "tmp">>
Extra(n) == <<n, "extra">>
Paths == UNION {{Out(n), Tmp(n), Extra(n)} : n \in Keys}

\* tools::md5sum: the digest of a file's bytes, NA for a missing file
Md5Of == [c \in Contents |->
            CASE c = "plainA" -> "0cc175b9"
              [] c = "tarWith" -> "92eb5ffe"
              [] c = "tarWithout" -> "4a8a08f0"
              [] c = "zipWith" -> "8277e091"
              [] c = "errpage" -> "e1671797"
              [] c = "member" -> "2510c390"
              [] c = "other" -> "6f8f5771"]
md5sum(f, p) == IF f[p] = Absent THEN NA ELSE Md5Of[f[p]]
file_exists(f, p) == f[p] # Absent

\* ExternalData_OBJECT_STORES: "" or k directories joined by ";"
StoreLists == {[i \in 1..k |-> i] : k \in 0..MaxStores}

(* --------------------- strings as token sequences ---------------------- *)
\* a string is a sequence of tokens: literal text, a directory name, one of
\* the two placeholders, a hash value, or the deparsed text of a vector
Lit(s) == [k |-> "lit", s |-> s, v |-> <<>>]
Dir(d) == [k |-> "dir", s |-> "", v |-> <<d>>]
Deparsed(ds) == [k |-> "deparse", s |-> "", v |-> ds]
HashSlot == Lit("%(hash)")
AlgoSlot == Lit("%(algo)")
HashTok(c) == [k |-> "hash", s |-> c, v |-> <<>>]

\* gsub(pattern, replacement, x) on one string: every occurrence replaced
gsub1(pat, rep, x) == [j \in 1..Len(x) |-> IF x[j] = pat THEN rep ELSE x[j]]
\* gsub over a character vector
gsub(pat, rep, xs) == [j \in 1..Len(xs) |-> gsub1(pat, rep, xs[j])]

\* strsplit(EDOSV, ";"): a list holding ONE character vector (the pieces)
strsplit(st) == << [j \in 1..Len(st) |-> Dir(st[j])] >>

\* as.character of a list element: a length-one vector is its string, a
\* longer vector is deparsed into the text c("..", "..")
as_character(vec) == IF Len(vec) = 1 THEN <<vec[1]>>
                     ELSE <<Deparsed([j \in 1..Len(vec) |-> vec[j].v[1]])>>

\* paste0("file://", lst, "/MD5/%(hash)"): one string per element of lst
paste0_stores(lst) ==
  [j \in 1..Len(lst) |->
     <<Lit("file://")>> \o as_character(lst[j]) \o <<Lit("/MD5/"), HashSlot>>]

RemoteMirrors ==
  << <<Lit("http://midas3.kitware.com/...&checksum="), HashSlot,
       Lit("&algorithm="), AlgoSlot>>,
     <<Lit("http://www.itk.org/files/ExternalData/"), AlgoSlot, Lit("/"),
       HashSlot>>,
     <<Lit("http://slicer.kitware.com/...&checksum="), HashSlot,
       Lit("&algorithm="), AlgoSlot>> >>

get_midas_servers(st) ==
  IF st # <<>> THEN paste0_stores(strsplit(st)) \o RemoteMirrors
  ELSE RemoteMirrors

(* ----------------------------- manifest -------------------------------- *)
NullVec == <<>>
is_null(x) == x = NullVec

ExplicitUrl == <<Lit("http://tux.creatis.insa-lyon.fr/archive")>>

\* one manifest record: the hash under md5sum, optional url, optional
\* archive flag (a field the record does not have reads as NULL)
Entries == [md5sum : {Md5Of[c] : c \in Served},
            sha512 : {NULL},
            url : {NullVec, <<ExplicitUrl>>},
            archive : {NULL, "true", "false"}]

\* manifest[[name]]: NULL fields for a name the manifest does not hold
NullDetails == [md5sum |-> NULL, sha512 |-> NULL, url |-> NullVec,
                archive |-> NULL]
Details(m, n) == IF n \in DOMAIN m THEN m[n] ELSE NullDetails

\* variant: the membership test always passes
KeyPresent_any(m, n) == TRUE

\* line 31: onefilename %in% names(manifest)
KeyPresent(m, n) == n \in DOMAIN m

\* variant: an explicit url is followed by the mirrors as a fallback
CandidateUrls_fallback(d, st) ==
  (IF ~is_null(d.url) THEN d.url ELSE <<>>) \o
  gsub(AlgoSlot, Lit("md5"),
       gsub(HashSlot, HashTok(d.md5sum), get_midas_servers(st)))

\* lines 39-43: the candidate URL list
CandidateUrls(d, st) ==
  IF ~is_null(d.url) THEN d.url
  ELSE gsub(AlgoSlot, Lit("md5"),
            gsub(HashSlot, HashTok(d.md5sum), get_midas_servers(st)))

\* line 41: gsub raises an error when the replacement is NULL
GsubFails(d) == is_null(d.url) /\ d.md5sum = NULL

(* ------------------------------ frames --------------------------------- *)
\* one activation of fetch_data_one: its arguments, locals and position
Frame(n, v, fo, m, st) ==
  [name |-> n, verify |-> v, force |-> fo, pc |-> "loop", i |-> 1,
   newdownload |-> FALSE, md5 |-> Details(m, n).md5sum,
   archive |-> Details(m, n).archive,
   all_urls |-> CandidateUrls(Details(m, n), st),
   dl |-> "none", ntried |-> 0, vhash |-> FALSE]

Top == stack[Len(stack)]
SetTop(f) == [stack EXCEPT ![Len(stack)] = f]
Running == stack # <<>>

\* the two invocations of the concurrent scenario
Procs == {"p", "q"}

\* no concurrent invocation has been made
RaceIdle == [stk |-> [p \in Procs |-> <<>>],
             st |-> [p \in Procs |-> "idle"],
             got |-> [p \in Procs |-> FALSE],
             hit |-> [p \in Procs |-> FALSE],
             ret |-> [p \in Procs |-> "none"]]

SessIdle == [env |-> "", ReadImage |-> <<>>, n |-> 0, last |-> "none"]
DockIdle == [running |-> {}, port |-> "free", inv |-> "none", runs |-> 0,
             out |-> "none", left |-> FALSE]
ViewIdle == [cur |-> "none", opts |-> "default", drawn |-> <<>>,
             opts0 |-> "default", drawn0 |-> <<>>, n |-> 0]

\* the parts of the state a specification does not use
OthersIdle ==
  /\ race = RaceIdle
  /\ rsess = SessIdle
  /\ dock = DockIdle
  /\ view = ViewIdle

\* no fetch_data_all is running
AllIdle == [st |-> "idle", pending |-> <<>>, verify |-> TRUE, made |-> <<>>,
            err |-> "none", base |-> 0, n |-> 0]

Init ==
  /\ OthersIdle
  /\ manifest \in [Keys -> Entries]
  /\ stores \in StoreLists
  /\ fs \in [Paths -> Contents \cup {Absent}]
  /\ \A n \in Keys : fs[Tmp(n)] = Absent /\ fs[Extra(n)] = Absent
  /\ \A n \in Keys : fs[Out(n)] \in Served \cup {"errpage", Absent}
  /\ dirs \in BOOLEAN
  /\ (\E n \in Keys : fs[Out(n)] # Absent) => dirs
  /\ stack = <<>>
  /\ attempts = <<>>
  /\ result = [kind |-> "none", path |-> <<>>]
  /\ errmsg = <<>>
  /\ fs0 = fs
  /\ dirs0 = dirs
  /\ args = [name |-> "img", verify |-> TRUE, force |-> FALSE]
  /\ nested = 0
  /\ sawWrong = FALSE
  /\ calls = 0
  /\ unpackLog = <<>>
  /\ all = AllIdle

(* ------------------------ steps of fetch_data_one ---------------------- *)
\* variant: every candidate is downloaded whatever is on disk
ShouldDownload_always(f, fsys) == TRUE

\* line 50: force | !file.exists(outfile)
ShouldDownload(f, fsys) == f.force \/ ~file_exists(fsys, Out(f.name))

\* variant: any file that could be hashed is accepted
HashMatches_anyfile(newmd5, md5) == newmd5 # NA

\* line 62: !is.na(newmd5) & (newmd5 == this.md5sum)
HashMatches(newmd5, md5) == newmd5 # NA /\ newmd5 = md5

\* variant: the file is left where it is
file_remove_noop(fsys, p) == fsys

\* variant: the whole cache directory is cleared
file_remove_all(fsys, p) == [q \in DOMAIN fsys |-> Absent]

\* variant: newdownload is set but the loop is not left
AfterMatch_nobreak(f) ==
  [f EXCEPT !.newdownload = TRUE, !.i = @ + 1, !.pc = "loop"]

\* lines 63-64: newdownload=TRUE; break
AfterMatch(f) == [f EXCEPT !.newdownload = TRUE, !.pc = "exists"]

\* line 69: file.remove(outfile)
file_remove(fsys, p) == [fsys EXCEPT ![p] = Absent]

\* what a download.file call inside try() can leave at the target path:
\* the bytes a server sent, or after an error the old state, nothing, or a
\* partial / error page
DownloadOutcomes(fsys, p) ==
  {[ok |-> TRUE, c |-> c] : c \in Served} \cup
  {[ok |-> FALSE, c |-> c] : c \in {fsys[p], Absent, "errpage"}}

\* variant: the comparison is == instead of !=
NeedsRedownload_inverted(f, fsys) ==
  /\ ~f.newdownload
  /\ f.verify
  /\ f.archive = NULL
  /\ md5sum(fsys, Out(f.name)) = f.md5

\* variant: the archive field is not looked at
NeedsRedownload_noarchive(f, fsys) ==
  /\ ~f.newdownload
  /\ f.verify
  /\ md5sum(fsys, Out(f.name)) # f.md5

\* lines 80-83: the stale-cache test
NeedsRedownload(f, fsys) ==
  /\ ~f.newdownload
  /\ f.verify
  /\ f.archive = NULL
  /\ md5sum(fsys, Out(f.name)) # f.md5

\* variant: the self-invocation does not force the download
RedownloadForce_false == FALSE

\* line 85: the force argument of the self-invocation
RedownloadForce == TRUE

\* lines 89-108: format detection by listing the contents
is_tar(c) == c \in {"tarWith", "tarWithout"}
is_zip(c) == c = "zipWith"
HasNamedMember(c) == c \in {"tarWith", "zipWith"}

\* lines 115-117 / 119-121: rename to .tmp, extract into the directory,
\* remove the .tmp file
Extract(fsys, n) ==
  LET c == fsys[Out(n)]
      renamed == [fsys EXCEPT ![Tmp(n)] = c, ![Out(n)] = Absent]
      extracted == [renamed EXCEPT
                      ![Out(n)] = IF HasNamedMember(c) THEN "member" ELSE @,
                      ![Extra(n)] = "other"]
  IN file_remove(extracted, Tmp(n))

\* lines 114 and 118: is.tar is asked first, is.zip only when it said no
Detect(c) ==
  IF is_tar(c) THEN [fmt |-> "tar", det |-> <<"tar">>]
  ELSE IF is_zip(c) THEN [fmt |-> "zip", det |-> <<"tar", "zip">>]
  ELSE [fmt |-> "none", det |-> <<"tar", "zip">>]

\* variant: the file is renamed to .tmp before its format is known
Unpack_renamefirst(f, fsys) ==
  IF f.archive = NULL THEN fsys
  ELSE IF Detect(fsys[Out(f.name)]).fmt # "none" THEN Extract(fsys, f.name)
  ELSE [fsys EXCEPT ![Tmp(f.name)] = fsys[Out(f.name)],
                    ![Out(f.name)] = Absent]

\* variant: the archive is extracted next to the downloaded file, which stays
Unpack_keeparchive(f, fsys) ==
  IF f.archive # NULL /\ Detect(fsys[Out(f.name)]).fmt # "none"
  THEN [fsys EXCEPT ![Extra(f.name)] = "other"]
  ELSE fsys

\* lines 111-124
Unpack(f, fsys) ==
  IF f.archive # NULL /\ Detect(fsys[Out(f.name)]).fmt # "none"
  THEN Extract(fsys, f.name)
  ELSE fsys

\* line 111: the body of the unpack step is entered
UnpackApplies(f) == f.archive # NULL

\* what an unpack step met: the file at the target, whether this activation
\* downloaded it, the detectors asked, and whether it was extracted
UnpackRecord(f, fsys) ==
  [c |-> fsys[Out(f.name)], fresh |-> f.newdownload, archive |-> f.archive,
   det |-> Detect(fsys[Out(f.name)]).det,
   did |-> Detect(fsys[Out(f.name)]).fmt # "none"]

\* lines 80 and 83: when line 80 holds, both operands of & are evaluated,
\* tools::md5sum(outfile) among them
HashesAtVerify(f) == ~f.newdownload /\ f.verify

Abort(kind, msg) ==
  /\ stack' = <<>>
  /\ result' = [kind |-> kind, path |-> <<>>]
  /\ errmsg' = msg

\* lines 28-46: entry of an activation, on top of the frames stk
Enter(n, v, fo, stk) ==
  IF ~KeyPresent(manifest, n) THEN Abort("keyerror", <<>>)
  ELSE IF GsubFails(Details(manifest, n)) THEN Abort("rerror", <<>>)
  ELSE /\ stack' = Append(stk, Frame(n, v, fo, manifest, stores))
       /\ result' = [kind |-> "running", path |-> <<>>]
       /\ errmsg' = <<>>

\* the start of a call fetch_data_one(n, output_directory, manifest_file,
\* v, fo) that is not a self-invocation
StartOne(n, v, fo) ==
  /\ calls' = calls + 1
  /\ args' = [name |-> n, verify |-> v, force |-> fo]
  /\ fs0' = fs
  /\ dirs0' = dirs
  /\ attempts' = <<>>
  /\ nested' = 0
  /\ sawWrong' = FALSE
  /\ unpackLog' = <<>>
  /\ Enter(n, v, fo, <<>>)
  /\ UNCHANGED <<manifest, stores, fs, dirs>>

\* a call of fetch_data_one by the user
Call(n, v, fo) ==
  /\ UNCHANGED otherVars
  /\ ~Running
  /\ all.st # "running"
  /\ calls < MaxCalls
  /\ StartOne(n, v, fo)
  /\ UNCHANGED all

\* line 50 false: this candidate is passed over
LoopSkip ==
  /\ UNCHANGED otherVars
  /\ Running /\ Top.pc = "loop" /\ Top.i <= Len(Top.all_urls)
  /\ ~ShouldDownload(Top, fs)
  /\ stack' = SetTop([Top EXCEPT !.i = @ + 1])
  /\ UNCHANGED <<manifest, stores, fs, dirs, attempts, result, errmsg,
                 fs0, dirs0, args, nested, sawWrong, calls, unpackLog, all>>

\* lines 50-54: dir.create and try(download.file(url, outfile))
Download ==
  /\ UNCHANGED otherVars
  /\ Running /\ Top.pc = "loop" /\ Top.i <= Len(Top.all_urls)
  /\ ShouldDownload(Top, fs)
  /\ dirs' = TRUE
  /\ \E o \in DownloadOutcomes(fs, Out(Top.name)) :
       /\ fs' = [fs EXCEPT ![Out(Top.name)] = o.c]
       /\ stack' = SetTop([Top EXCEPT !.pc = "md5",
                                      !.dl = IF o.ok THEN "ok" ELSE "fail",
                                      !.ntried = @ + 1])
       /\ sawWrong' = (sawWrong \/ (o.ok /\ Md5Of[o.c] # Top.md5))
  /\ attempts' = Append(attempts, Top.all_urls[Top.i])
  /\ UNCHANGED <<manifest, stores, result, errmsg, fs0, dirs0, args, nested,
                 calls, unpackLog, all>>

\* variant: the loop stays on the same candidate after a mismatch
AfterMismatch_retry(f) == [f EXCEPT !.pc = "loop"]

\* lines 49 and 65-71: after a mismatch the for loop goes to the next url
AfterMismatch(f) == [f EXCEPT !.i = @ + 1, !.pc = "loop"]

\* lines 55-71: md5sum of the target, then break or remove and go on
CheckHash ==
  /\ UNCHANGED otherVars
  /\ Running /\ Top.pc = "md5"
  /\ IF Top.md5 = NULL
     THEN /\ Abort("rerror", <<>>)
          /\ UNCHANGED fs
     ELSE IF HashMatches(md5sum(fs, Out(Top.name)), Top.md5)
     THEN /\ stack' = SetTop(AfterMatch(Top))
          /\ UNCHANGED <<fs, result, errmsg>>
     ELSE /\ fs' = file_remove(fs, Out(Top.name))
          /\ stack' = SetTop(AfterMismatch(Top))
          /\ UNCHANGED <<result, errmsg>>
  /\ UNCHANGED <<manifest, stores, dirs, attempts, fs0, dirs0, args, nested,
                 sawWrong, calls, unpackLog, all>>

\* the for loop has run through all_urls
LoopEnd ==
  /\ UNCHANGED otherVars
  /\ Running /\ Top.pc = "loop" /\ Top.i > Len(Top.all_urls)
  /\ stack' = SetTop([Top EXCEPT !.pc = "exists"])
  /\ UNCHANGED <<manifest, stores, fs, dirs, attempts, result, errmsg,
                 fs0, dirs0, args, nested, sawWrong, calls, unpackLog, all>>

\* lines 75-78: stop() when the file is not there
ExistsCheck ==
  /\ UNCHANGED otherVars
  /\ Running /\ Top.pc = "exists"
  /\ IF ~file_exists(fs, Out(Top.name))
     THEN Abort("fetcherror", Top.all_urls)
     ELSE /\ stack' = SetTop([Top EXCEPT !.pc = "verify"])
          /\ UNCHANGED <<result, errmsg>>
  /\ UNCHANGED <<manifest, stores, fs, dirs, attempts, fs0, dirs0, args,
                 nested, sawWrong, calls, unpackLog, all>>

\* lines 80-87: verification of a file that was not downloaded by this
\* activation; on a mismatch the function calls itself
Verify ==
  /\ UNCHANGED otherVars
  /\ Running /\ Top.pc = "verify"
  /\ IF ~Top.newdownload /\ Top.verify /\ Top.md5 = NULL
     THEN /\ Abort("rerror", <<>>)
          /\ UNCHANGED nested
     ELSE IF NeedsRedownload(Top, fs)
     THEN /\ Len(stack) < MaxDepth
          /\ nested' = nested + 1
          /\ Enter(Top.name, Top.verify, RedownloadForce,
                   SetTop([Top EXCEPT !.pc = "unpack",
                                      !.vhash = HashesAtVerify(Top)]))
     ELSE /\ stack' = SetTop([Top EXCEPT !.pc = "unpack",
                                         !.vhash = HashesAtVerify(Top)])
          /\ UNCHANGED <<result, errmsg, nested>>
  /\ UNCHANGED <<manifest, stores, fs, dirs, attempts, fs0, dirs0, args,
                 sawWrong, calls, unpackLog, all>>

\* lines 110-124: unpack if an archive
UnpackStep ==
  /\ UNCHANGED otherVars
  /\ Running /\ Top.pc = "unpack"
  /\ fs' = Unpack(Top, fs)
  /\ unpackLog' = IF UnpackApplies(Top)
                  THEN Append(unpackLog, UnpackRecord(Top, fs))
                  ELSE unpackLog
  /\ stack' = SetTop([Top EXCEPT !.pc = "ret"])
  /\ UNCHANGED <<manifest, stores, dirs, attempts, result, errmsg, fs0,
                 dirs0, args, nested, sawWrong, calls, all>>

\* line 125: return(outfile)
Return ==
  /\ UNCHANGED otherVars
  /\ Running /\ Top.pc = "ret"
  /\ stack' = SubSeq(stack, 1, Len(stack) - 1)
  /\ result' = IF Len(stack) = 1
               THEN [kind |-> "returned", path |-> Out(Top.name)]
               ELSE result
  /\ UNCHANGED <<manifest, stores, fs, dirs, attempts, errmsg, fs0, dirs0,
                 args, nested, sawWrong, calls, unpackLog, all>>

Next ==
  \/ \E n \in Names, v \in BOOLEAN, fo \in BOOLEAN : Call(n, v, fo)
  \/ LoopSkip
  \/ Download
  \/ CheckHash
  \/ LoopEnd
  \/ ExistsCheck
  \/ Verify
  \/ UnpackStep
  \/ Return

Spec == Init /\ [][Next]_vars

\* a step of a call in progress: R runs the statements of fetch_data_one
\* one after the other, and download.file, untar and unzip come back
Step ==
  \/ LoopSkip
  \/ Download
  \/ CheckHash
  \/ LoopEnd
  \/ ExistsCheck
  \/ Verify
  \/ UnpackStep
  \/ Return

SpecLive == Spec /\ WF_vars(Step)

(* ----------------------------- fetch_data_all -------------------------- *)
MaxAll == 1

AllKeys == {"img", "vol"}
AllPaths == UNION {{Out(n), Tmp(n), Extra(n)} : n \in AllKeys}

\* the keys in the order in which the manifest file lists them
FileOrder == <<"vol", "img">>

\* names(manifest) of a list read by fromJSON: the keys in file order
names(m) == SelectSeq(FileOrder, LAMBDA k : k \in DOMAIN m)

AllEntries == [md5sum : {Md5Of["plainA"], Md5Of["tarWith"]},
               sha512 : {NULL},
               url : {NullVec, <<ExplicitUrl>>},
               archive : {NULL, "true"}]

InitAll ==
  /\ OthersIdle
  /\ manifest \in [AllKeys -> AllEntries]
  /\ stores = <<>>
  /\ fs \in [AllPaths -> Contents \cup {Absent}]
  /\ \A n \in AllKeys : fs[Tmp(n)] = Absent /\ fs[Extra(n)] = Absent
  /\ \A n \in AllKeys :
       fs[Out(n)] \in {"plainA", "tarWith", "errpage", Absent}
  /\ dirs \in BOOLEAN
  /\ (\E n \in AllKeys : fs[Out(n)] # Absent) => dirs
  /\ stack = <<>>
  /\ attempts = <<>>
  /\ result = [kind |-> "none", path |-> <<>>]
  /\ errmsg = <<>>
  /\ fs0 = fs
  /\ dirs0 = dirs
  /\ args = [name |-> "img", verify |-> TRUE, force |-> FALSE]
  /\ nested = 0
  /\ sawWrong = FALSE
  /\ calls = 0
  /\ unpackLog = <<>>
  /\ all = AllIdle

\* line 134: the force argument handed to every fetch_data_one call
AllForce == FALSE

\* lines 30 and 132: the calls of fromJSON(manifest_file) made so far by
\* fetch_data_all itself and by the fetch_data_one calls it has made
ManifestReads == 1 + Len(all.made)

\* variant: an error of one call is swallowed and lapply goes on
Propagates_never(kind) == FALSE

\* line 134: lapply has no handler, so a call that ends in stop() (or in any
\* other R error) ends lapply and fetch_data_all with that error
Propagates(kind) == kind # "returned"

\* the calls made so far, the last one marked with how it ended
Settled(made, kind) ==
  IF made = <<>> THEN made
  ELSE [made EXCEPT ![Len(made)] =
          [@ EXCEPT !.res = kind, !.tried = Len(attempts)]]

\* the fetch_data_one call in progress has ended (or none was made yet)
BetweenCalls == all.st = "running" /\ ~Running

\* lines 128-132: fetch_data_all(output_directory, manifest_file, v) reads
\* the manifest; lapply will walk names(manifest)
FetchAllStart(v) ==
  /\ UNCHANGED otherVars
  /\ ~Running /\ all.st # "running" /\ all.n < MaxAll
  /\ all' = [st |-> "running", pending |-> names(manifest), verify |-> v,
             made |-> <<>>, err |-> "none", base |-> calls, n |-> all.n + 1]
  /\ UNCHANGED <<manifest, stores, fs, dirs, stack, attempts, result, errmsg,
                 fs0, dirs0, args, nested, sawWrong, calls, unpackLog>>

\* line 134: lapply calls fetch_data_one for the next name
FetchAllNext ==
  /\ UNCHANGED otherVars
  /\ BetweenCalls /\ all.pending # <<>>
  /\ all.made # <<>> => ~Propagates(result.kind)
  /\ StartOne(Head(all.pending), all.verify, AllForce)
  /\ all' = [all EXCEPT
               !.pending = Tail(@),
               !.made = Append(Settled(@, result.kind),
                               [name |-> Head(all.pending),
                                force |-> AllForce, res |-> "running",
                                tried |-> 0])]

\* line 134: a call ended in an error, which ends fetch_data_all
FetchAllFail ==
  /\ UNCHANGED otherVars
  /\ BetweenCalls /\ all.made # <<>>
  /\ Propagates(result.kind)
  /\ all' = [all EXCEPT !.st = "failed", !.err = result.kind,
                        !.made = Settled(@, result.kind)]
  /\ UNCHANGED <<manifest, stores, fs, dirs, stack, attempts, result, errmsg,
                 fs0, dirs0, args, nested, sawWrong, calls, unpackLog>>

\* lines 134-136: lapply has walked every name
FetchAllDone ==
  /\ UNCHANGED otherVars
  /\ BetweenCalls /\ all.pending = <<>>
  /\ all.made # <<>> => ~Propagates(result.kind)
  /\ all' = [all EXCEPT !.st = "done", !.made = Settled(@, result.kind)]
  /\ UNCHANGED <<manifest, stores, fs, dirs, stack, attempts, result, errmsg,
                 fs0, dirs0, args, nested, sawWrong, calls, unpackLog>>

NextAll ==
  \/ \E v \in BOOLEAN : FetchAllStart(v)
  \/ FetchAllNext
  \/ FetchAllFail
  \/ FetchAllDone
  \/ LoopSkip
  \/ Download
  \/ CheckHash
  \/ LoopEnd
  \/ ExistsCheck
  \/ Verify
  \/ UnpackStep
  \/ Return

SpecAll == InitAll /\ [][NextAll]_vars

(* ------------------------------- fetch_data ---------------------------- *)
\* line 138: the default of fetch_data's verify argument
FetchDataVerifyDefault == FALSE

\* variant: fetch_data forces the download
FetchDataForce_true == TRUE

\* lines 28 and 141: fetch_data hands no force argument to fetch_data_one,
\* which then takes its default
FetchDataForce == FALSE

\* lines 138-142: fetch_data(n, verify = v), the manifest being the file
\* manifest.json of the cache directory
FetchData(n, v) ==
  /\ UNCHANGED otherVars
  /\ ~Running
  /\ calls < MaxCalls
  /\ StartOne(n, v, FetchDataForce)
  /\ UNCHANGED all

NextData ==
  \/ \E n \in Names : FetchData(n, FetchDataVerifyDefault)
  \/ \E n \in Names : FetchData(n, ~FetchDataVerifyDefault)
  \/ LoopSkip
  \/ Download
  \/ CheckHash
  \/ LoopEnd
  \/ ExistsCheck
  \/ Verify
  \/ UnpackStep
  \/ Return

SpecData == Init /\ [][NextData]_vars

(* ------------------------- entries with a sha512 field ----------------- *)
\* the SHA-512 digest of a file's bytes
Sha512Of == [c \in Contents |->
               CASE c = "plainA" -> "f1b5ce1b"
                 [] c = "tarWith" -> "09fcb39c"
                 [] c = "tarWithout" -> "3c9909af"
                 [] c = "zipWith" -> "cf83e135"
                 [] c = "errpage" -> "1f40fc92"
                 [] c = "member" -> "5267768e"
                 [] c = "other" -> "acc28db2"]
sha512sum(f, p) == IF f[p] = Absent THEN NA ELSE Sha512Of[f[p]]

\* a manifest record as the contributing guide prescribes it: the hash
\* under sha512 and no md5sum field
ShaEntries == [md5sum : {NULL},
               sha512 : {Sha512Of[c] : c \in Served},
               url : {NullVec, <<ExplicitUrl>>},
               archive : {NULL, "true"}]

InitSha ==
  /\ OthersIdle
  /\ manifest \in [Keys -> Entries \cup ShaEntries]
  /\ stores \in StoreLists
  /\ fs \in [Paths -> Contents \cup {Absent}]
  /\ \A n \in Keys : fs[Tmp(n)] = Absent /\ fs[Extra(n)] = Absent
  /\ \A n \in Keys : fs[Out(n)] \in Served \cup {"errpage", Absent}
  /\ dirs \in BOOLEAN
  /\ (\E n \in Keys : fs[Out(n)] # Absent) => dirs
  /\ stack = <<>>
  /\ attempts = <<>>
  /\ result = [kind |-> "none", path |-> <<>>]
  /\ errmsg = <<>>
  /\ fs0 = fs
  /\ dirs0 = dirs
  /\ args = [name |-> "img", verify |-> TRUE, force |-> FALSE]
  /\ nested = 0
  /\ sawWrong = FALSE
  /\ calls = 0
  /\ unpackLog = <<>>
  /\ all = AllIdle

SpecSha == InitSha /\ [][Next]_vars

(* ------------- two concurrent invocations of fetch_data_one ------------ *)
\* Two R processes call fetch_data_one for the same name and the same
\* output directory.  Each runs the statements of the function in order;
\* the statements of the two interleave freely, since the function takes no
\* lock.  A statement that touches the file system is one step.
RaceName == "img"

RaceEntries == [md5sum : {Md5Of["plainA"], Md5Of["tarWith"]},
                sha512 : {NULL},
                url : {<<ExplicitUrl>>},
                archive : {NULL, "true"}]

\* the variables of the one-process model, not used here
callVars == <<manifest, stores, stack, attempts, result, errmsg, fs0, dirs0,
              args, nested, sawWrong, calls, unpackLog, all>>

InitRace ==
  /\ manifest \in [Keys -> RaceEntries]
  /\ stores = <<>>
  /\ fs \in [Paths -> Contents \cup {Absent}]
  /\ \A n \in Keys : fs[Tmp(n)] = Absent /\ fs[Extra(n)] = Absent
  /\ \A n \in Keys : fs[Out(n)] \in {"plainA", "errpage", Absent}
  /\ dirs \in BOOLEAN
  /\ (\E n \in Keys : fs[Out(n)] # Absent) => dirs
  /\ stack = <<>>
  /\ attempts = <<>>
  /\ result = [kind |-> "none", path |-> <<>>]
  /\ errmsg = <<>>
  /\ fs0 = fs
  /\ dirs0 = dirs
  /\ args = [name |-> RaceName, verify |-> TRUE, force |-> FALSE]
  /\ nested = 0
  /\ sawWrong = FALSE
  /\ calls = 0
  /\ unpackLog = <<>>
  /\ all = AllIdle
  /\ OthersIdle

RTop(p) == race.stk[p][Len(race.stk[p])]
RSetTop(p, f) == [race.stk[p] EXCEPT ![Len(race.stk[p])] = f]
RAt(p, pc) == race.st[p] = "running" /\ RTop(p).pc = pc

\* variant: a process works on a copy of the file of its own
SharesTarget_never(p, q) == FALSE

\* line 35: both processes compute the same outfile, so what one writes or
\* removes there is the file of the other
SharesTarget(p, q) == p # q

\* which processes had verified a download and had it changed under them
\* when p turns the file system from fs into fsNew
Touched(p, fsNew) ==
  [q \in Procs |->
     race.hit[q] \/ (/\ SharesTarget(p, q)
                     /\ race.st[q] = "running" /\ race.got[q]
                     /\ fsNew # fs)]

\* lines 28-46: process p calls fetch_data_one(RaceName, dir, manifest, v, fo)
RCall(p, v, fo) ==
  /\ race.st[p] = "idle"
  /\ race' = [race EXCEPT
                !.stk[p] = <<Frame(RaceName, v, fo, manifest, stores)>>,
                !.st[p] = "running"]
  /\ UNCHANGED <<callVars, fs, dirs, rsess, dock, view>>

\* line 50 false
RLoopSkip(p) ==
  /\ RAt(p, "loop") /\ RTop(p).i <= Len(RTop(p).all_urls)
  /\ ~ShouldDownload(RTop(p), fs)
  /\ race' = [race EXCEPT !.stk[p] = RSetTop(p, [RTop(p) EXCEPT !.i = @ + 1])]
  /\ UNCHANGED <<callVars, fs, dirs, rsess, dock, view>>

\* lines 50-54
RDownload(p) ==
  /\ RAt(p, "loop") /\ RTop(p).i <= Len(RTop(p).all_urls)
  /\ ShouldDownload(RTop(p), fs)
  /\ dirs' = TRUE
  /\ \E o \in DownloadOutcomes(fs, Out(RaceName)) :
       /\ fs' = [fs EXCEPT ![Out(RaceName)] = o.c]
       /\ race' = [race EXCEPT
                     !.stk[p] = RSetTop(p, [RTop(p) EXCEPT
                                  !.pc = "md5",
                                  !.dl = IF o.ok THEN "ok" ELSE "fail",
                                  !.ntried = @ + 1]),
                     !.hit = Touched(p, [fs EXCEPT ![Out(RaceName)] = o.c])]
  /\ UNCHANGED <<callVars, rsess, dock, view>>

\* lines 55-71
RCheckHash(p) ==
  /\ RAt(p, "md5")
  /\ IF HashMatches(md5sum(fs, Out(RaceName)), RTop(p).md5)
     THEN /\ race' = [race EXCEPT !.stk[p] = RSetTop(p, AfterMatch(RTop(p))),
                                  !.got[p] = TRUE]
          /\ UNCHANGED fs
     ELSE /\ fs' = file_remove(fs, Out(RaceName))
          /\ race' = [race EXCEPT
                        !.stk[p] = RSetTop(p, AfterMismatch(RTop(p))),
                        !.hit = Touched(p, file_remove(fs, Out(RaceName)))]
  /\ UNCHANGED <<callVars, dirs, rsess, dock, view>>

\* the for loop of p has run through all_urls
RLoopEnd(p) ==
  /\ RAt(p, "loop") /\ RTop(p).i > Len(RTop(p).all_urls)
  /\ race' = [race EXCEPT !.stk[p] = RSetTop(p, [RTop(p) EXCEPT !.pc = "exists"])]
  /\ UNCHANGED <<callVars, fs, dirs, rsess, dock, view>>

\* lines 75-78
RExistsCheck(p) ==
  /\ RAt(p, "exists")
  /\ IF ~file_exists(fs, Out(RaceName))
     THEN race' = [race EXCEPT !.stk[p] = <<>>, !.st[p] = "failed"]
     ELSE race' = [race EXCEPT
                     !.stk[p] = RSetTop(p, [RTop(p) EXCEPT !.pc = "verify"])]
  /\ UNCHANGED <<callVars, fs, dirs, rsess, dock, view>>

\* lines 80-87
RVerify(p) ==
  /\ RAt(p, "verify")
  /\ IF NeedsRedownload(RTop(p), fs)
     THEN /\ Len(race.stk[p]) < MaxDepth
          /\ race' = [race EXCEPT
                        !.stk[p] = Append(
                           RSetTop(p, [RTop(p) EXCEPT
                                         !.pc = "unpack",
                                         !.vhash = HashesAtVerify(RTop(p))]),
                           Frame(RaceName, RTop(p).verify, RedownloadForce,
                                 manifest, stores))]
     ELSE race' = [race EXCEPT
                     !.stk[p] = RSetTop(p, [RTop(p) EXCEPT
                                   !.pc = "unpack",
                                   !.vhash = HashesAtVerify(RTop(p))])]
  /\ UNCHANGED <<callVars, fs, dirs, rsess, dock, view>>

\* lines 110-124
RUnpackStep(p) ==
  /\ RAt(p, "unpack")
  /\ fs' = Unpack(RTop(p), fs)
  /\ race' = [race EXCEPT
                !.stk[p] = RSetTop(p, [RTop(p) EXCEPT !.pc = "ret"]),
                !.hit = Touched(p, Unpack(RTop(p), fs))]
  /\ UNCHANGED <<callVars, dirs, rsess, dock, view>>

\* what a returning call leaves its caller with: a file it verified in
\* this call and that still has the manifest hash, one that has it no
\* longer, or a file it never looked at
ReturnState(p) ==
  IF ~race.got[p] THEN "cached"
  ELSE IF md5sum(fs, Out(RaceName)) = RTop(p).md5 THEN "freshgood"
  ELSE "freshbad"

\* line 125
RReturn(p) ==
  /\ RAt(p, "ret")
  /\ IF Len(race.stk[p]) = 1
     THEN race' = [race EXCEPT !.stk[p] = <<>>, !.st[p] = "returned",
                               !.ret[p] = ReturnState(p)]
     ELSE race' = [race EXCEPT
                     !.stk[p] = SubSeq(race.stk[p], 1, Len(race.stk[p]) - 1)]
  /\ UNCHANGED <<callVars, fs, dirs, rsess, dock, view>>

NextRace ==
  \/ \E p \in Procs, v \in BOOLEAN, fo \in BOOLEAN : RCall(p, v, fo)
  \/ \E p \in Procs : RLoopSkip(p)
  \/ \E p \in Procs : RDownload(p)
  \/ \E p \in Procs : RCheckHash(p)
  \/ \E p \in Procs : RLoopEnd(p)
  \/ \E p \in Procs : RExistsCheck(p)
  \/ \E p \in Procs : RVerify(p)
  \/ \E p \in Procs : RUnpackStep(p)
  \/ \E p \in Procs : RReturn(p)

SpecRace == InitRace /\ [][NextRace]_vars

(* ------------- the fetcher's state when another script is modelled ----- *)
FetchUnused ==
  /\ manifest = [n \in Keys |-> NullDetails]
  /\ stores = <<>>
  /\ fs = [p \in Paths |-> Absent]
  /\ dirs = FALSE
  /\ stack = <<>>
  /\ attempts = <<>>
  /\ result = [kind |-> "none", path |-> <<>>]
  /\ errmsg = <<>>
  /\ fs0 = fs
  /\ dirs0 = dirs
  /\ args = [name |-> "img", verify |-> TRUE, force |-> FALSE]
  /\ nested = 0
  /\ sawWrong = FALSE
  /\ calls = 0
  /\ unpackLog = <<>>
  /\ all = AllIdle

(* ------------------------- setup_for_testing.R ------------------------- *)
MaxOps == 4

\* line 16: the factor handed to shrink_decorator
ShrinkFactor == 4
\* viewing.R line 69: the factor of the override defined there
ViewingShrinkFactor == 2

\* values of SIMPLE_ITK_MEMORY_CONSTRAINED_ENVIRONMENT: unset, or set to a
\* string
EnvValues == {"", "1", "0"}

\* arguments of a ReadImage call: a file name and an output pixel type
ImageFiles == {"big.mha", "small.png"}
ReadArgs == [file : ImageFiles, pixel : {"default", "sitkFloat32"}]
NoArgs == [file |-> "none", pixel |-> "none"]

\* an image: where it was read from, with which pixel type, its size along
\* each axis
PixelsOf == [f \in ImageFiles \cup {"none"} |->
               CASE f = "big.mha" -> 9
                 [] f = "small.png" -> 3
                 [] OTHER -> 0]

\* SimpleITK::ReadImage(...)
SimpleITKReadImage(a) == [file |-> a.file, pixel |-> a.pixel, size |-> PixelsOf[a.file]]
NoImage == SimpleITKReadImage(NoArgs)

\* ShrinkImageFilter with SetShrinkFactor(k): the size is divided by k,
\* rounded down, and is never less than one
Shrink(img, k) ==
  [img EXCEPT !.size = IF @ \div k < 1 THEN 1 ELSE @ \div k]

\* A function bound to ReadImage is SimpleITK::ReadImage followed by the
\* shrink steps of the closures wrapped around it, the innermost first.
OriginalReadImage == <<>>

\* lines 5-9: func_and_resize calls func(...) and shrinks what it returns
func_and_resize(func, size) == Append(func, size)

\* lines 3-13: shrink_decorator(size)(func)
shrink_decorator(size, func) == func_and_resize(func, size)

\* variant: the function wrapped is whatever ReadImage is bound to
WrappedFunc_current(binding) == binding

\* line 16: the function wrapped is SimpleITK::ReadImage, whatever the
\* global ReadImage is bound to
WrappedFunc(binding) == OriginalReadImage

\* line 15: "" != Sys.getenv(...)
MemoryConstrained(env) == env # ""

\* calling a bound function on image img: the shrink steps in order
RECURSIVE ApplyShrinks(_, _)
ApplyShrinks(binding, img) ==
  IF binding = <<>> THEN img
  ELSE ApplyShrinks(Tail(binding), Shrink(img, Head(binding)))

NoOp == [op |-> "none", env |-> "", before |-> <<>>, after |-> <<>>,
         args |-> NoArgs, orig |-> <<>>, res |-> NoImage]

InitSess ==
  /\ FetchUnused
  /\ race = RaceIdle
  /\ dock = DockIdle
  /\ view = ViewIdle
  /\ rsess \in [env : EnvValues, ReadImage : {OriginalReadImage},
                n : {0}, last : {NoOp}]

\* the environment variable is set or cleared from inside the session
SetEnv(v) ==
  /\ rsess.n < MaxOps
  /\ v # rsess.env
  /\ rsess' = [rsess EXCEPT !.env = v, !.n = @ + 1,
                            !.last = [NoOp EXCEPT !.op = "setenv", !.env = v,
                                        !.before = rsess.ReadImage,
                                        !.after = rsess.ReadImage]]
  /\ UNCHANGED <<fetchVars, race, dock, view>>

\* lines 15-17: source("setup_for_testing.R")
SourceTesting ==
  /\ rsess.n < MaxOps
  /\ LET after == IF MemoryConstrained(rsess.env)
                  THEN shrink_decorator(ShrinkFactor,
                                        WrappedFunc(rsess.ReadImage))
                  ELSE rsess.ReadImage
     IN rsess' = [rsess EXCEPT !.ReadImage = after, !.n = @ + 1,
                               !.last = [NoOp EXCEPT !.op = "source",
                                           !.env = rsess.env,
                                           !.before = rsess.ReadImage,
                                           !.after = after]]
  /\ UNCHANGED <<fetchVars, race, dock, view>>

\* viewing.R lines 66-72: source("viewing.R") defines an override of its own
SourceViewing ==
  /\ rsess.n < MaxOps
  /\ LET after == IF MemoryConstrained(rsess.env)
                  THEN func_and_resize(OriginalReadImage, ViewingShrinkFactor)
                  ELSE rsess.ReadImage
     IN rsess' = [rsess EXCEPT !.ReadImage = after, !.n = @ + 1,
                               !.last = [NoOp EXCEPT !.op = "viewing",
                                           !.env = rsess.env,
                                           !.before = rsess.ReadImage,
                                           !.after = after]]
  /\ UNCHANGED <<fetchVars, race, dock, view>>

\* a notebook cell calls ReadImage(a): lines 5-9 when the wrapper is bound
CallReadImage(a) ==
  /\ rsess.n < MaxOps
  /\ rsess' = [rsess EXCEPT
                 !.n = @ + 1,
                 !.last = [NoOp EXCEPT
                             !.op = "call", !.env = rsess.env,
                             !.before = rsess.ReadImage,
                             !.after = rsess.ReadImage,
                             !.args = a,
                             !.orig = <<a>>,
                             !.res = ApplyShrinks(rsess.ReadImage,
                                                  SimpleITKReadImage(a))]]
  /\ UNCHANGED <<fetchVars, race, dock, view>>

NextSess ==
  \/ \E v \in EnvValues : SetEnv(v)
  \/ SourceTesting
  \/ SourceViewing
  \/ \E a \in ReadArgs : CallReadImage(a)

SpecSess == InitSess /\ [][NextSess]_vars

(* --------------------------------- run.sh ------------------------------ *)
MaxRuns == 2

\* line 23 and line 25: the name the script looks for and stops
StopName == "simpleitk-notebooks"
\* line 43: the name under which the script starts its container
RunName == "2015-miccai"
ContainerNames == {StopName, RunName}

\* uname, and whether /bin/sh takes "&>" as a redirection (bash) or as "&"
\* followed by ">" (a POSIX shell such as dash)
OSNames == {"Linux", "Darwin"}
Shells == {"bash", "posix"}

\* docker ps --filter "name=f": the running containers whose name holds f
NameMatches(f, c) == f = c

\* lines 3-7: $? after "which docker &> /dev/null"; a POSIX shell runs
\* which in the background and $? is that of the empty redirection
WhichFails(sh, hasDocker) == sh = "bash" /\ ~hasDocker

NoInvocation == [pc |-> "idle", os |-> "Linux", sh |-> "bash",
                 hasDocker |-> TRUE, found |-> FALSE]

InitDock ==
  /\ FetchUnused
  /\ race = RaceIdle
  /\ rsess = SessIdle
  /\ view = ViewIdle
  /\ dock \in [running : SUBSET {StopName}, port : {"free", StopName},
               inv : {NoInvocation}, runs : {0}, out : {"none"},
               left : {FALSE}]
  /\ dock.port # "free" => dock.port \in dock.running

\* the script is started
Invoke(os, sh, hasDocker) ==
  /\ dock.inv.pc = "idle"
  /\ dock.runs < MaxRuns
  /\ dock' = [dock EXCEPT !.inv = [pc |-> "which", os |-> os, sh |-> sh,
                                   hasDocker |-> hasDocker, found |-> FALSE],
                          !.runs = @ + 1, !.out = "none"]
  /\ UNCHANGED <<fetchVars, race, rsess, view>>

\* lines 3-7
WhichDocker ==
  /\ dock.inv.pc = "which"
  /\ dock' = IF WhichFails(dock.inv.sh, dock.inv.hasDocker)
             THEN [dock EXCEPT !.inv = NoInvocation, !.out = "nodocker"]
             ELSE [dock EXCEPT !.inv.pc = "ps"]
  /\ UNCHANGED <<fetchVars, race, rsess, view>>

\* line 23: _RUNNING=$(docker ps -q --filter "name=simpleitk-notebooks")
DockerPs ==
  /\ dock.inv.pc = "ps"
  /\ dock' = [dock EXCEPT
                !.inv.pc = "test",
                !.inv.found = /\ dock.inv.hasDocker
                              /\ \E c \in dock.running : NameMatches(StopName, c)]
  /\ UNCHANGED <<fetchVars, race, rsess, view>>

\* lines 24-26: docker stop simpleitk-notebooks when _RUNNING is not empty
StopOld ==
  /\ dock.inv.pc = "test"
  /\ dock' = IF dock.inv.found
             THEN [dock EXCEPT
                     !.inv.pc = "run",
                     !.running = @ \ {StopName},
                     !.port = IF @ = StopName THEN "free" ELSE @]
             ELSE [dock EXCEPT !.inv.pc = "run"]
  /\ UNCHANGED <<fetchVars, race, rsess, view>>

\* docker run --name n -p 8888:8888: refused when a container of that name
\* exists or the port is taken
RunOutcome(n, running, port) ==
  IF n \in running THEN "nameconflict"
  ELSE IF port # "free" THEN "portconflict"
  ELSE "started"

\* lines 41-46: docker run --rm --name 2015-miccai -p 8888:8888 ...
DockerRun ==
  /\ dock.inv.pc = "run"
  /\ LET o == IF dock.inv.hasDocker
              THEN RunOutcome(RunName, dock.running, dock.port)
              ELSE "nodocker"
     IN dock' = IF o = "started"
                THEN [dock EXCEPT !.inv.pc = "serving", !.out = o,
                                  !.running = @ \cup {RunName},
                                  !.port = RunName]
                ELSE [dock EXCEPT !.inv = NoInvocation, !.out = o]
  /\ UNCHANGED <<fetchVars, race, rsess, view>>

\* the script ends while its container serves: Control-C reaches the
\* container, which stops and is removed (--rm); or the script is gone (run
\* in the background by a POSIX shell, terminal closed) and the container
\* goes on running
ScriptEnds(stopped) ==
  /\ dock.inv.pc = "serving"
  /\ dock.inv.sh = "posix" => ~stopped
  /\ dock' = IF stopped
             THEN [dock EXCEPT !.inv = NoInvocation,
                               !.running = @ \ {RunName}, !.port = "free"]
             ELSE [dock EXCEPT !.inv = NoInvocation, !.left = TRUE]
  /\ UNCHANGED <<fetchVars, race, rsess, view>>

NextDock ==
  \/ \E os \in OSNames, sh \in Shells, d \in BOOLEAN : Invoke(os, sh, d)
  \/ WhichDocker
  \/ DockerPs
  \/ StopOld
  \/ DockerRun
  \/ \E stopped \in BOOLEAN : ScriptEnds(stopped)

SpecDock == InitDock /\ [][NextDock]_vars

(* ------------------------- viewing.R: show_inline ---------------------- *)
MaxComp == 4
MaxShows == 2

\* line 41: the message of stop()
OnlyOneOrThree == "Only deals with 1 or 3 component images"

\* images handed to show_inline: number of components and size in pixels
ImageSizes == {<<1, 1>>, <<1, 2>>, <<2, 1>>}
Images == [ncomp : 1..MaxComp, sz : ImageSizes]

\* the repr.plot.width / repr.plot.height options: the defaults, or the
\* values line 59 sets for an image of size sz (height over width)
DefaultOptions == [set |-> FALSE, sz |-> <<0, 0>>]

\* variant: every image is taken as a greyscale image
Supported_any(ncomp) == TRUE

\* lines 31 and 35: the component counts show_inline deals with
Supported(ncomp) == ncomp = 3 \/ ncomp = 1

\* line 37: ConstantPad(object, c(1, 1), c(1, 1), 0) adds a pixel on each
\* side; only a one-component image is padded
Padded(img, pad) ==
  IF pad /\ img.ncomp = 1
  THEN [img EXCEPT !.sz = <<img.sz[1] + 2, img.sz[2] + 2>>]
  ELSE img

NoShow == [pc |-> "idle", img |-> [ncomp |-> 1, sz |-> <<1, 1>>],
           pad |-> FALSE, err |-> "none"]

InitView ==
  /\ FetchUnused
  /\ race = RaceIdle
  /\ rsess = SessIdle
  /\ dock = DockIdle
  /\ view = [cur |-> NoShow, opts |-> DefaultOptions, drawn |-> <<>>,
             opts0 |-> DefaultOptions, drawn0 |-> <<>>, n |-> 0]

\* line 28: show_inline(object, pad = pad) is called
ShowInline(img, pad) ==
  /\ view.cur.pc = "idle"
  /\ view.n < MaxShows
  /\ view' = [view EXCEPT
                !.cur = [pc |-> "ncomp", img |-> img, pad |-> pad,
                         err |-> "none"],
                !.opts0 = view.opts, !.drawn0 = view.drawn, !.n = @ + 1]
  /\ UNCHANGED <<fetchVars, race, rsess, dock>>

\* lines 30-42: the branch on the number of components
Components ==
  /\ view.cur.pc = "ncomp"
  /\ view' = IF Supported(view.cur.img.ncomp)
             THEN [view EXCEPT
                     !.cur.pc = "options",
                     !.cur.img = Padded(view.cur.img, view.cur.pad)]
             ELSE [view EXCEPT !.cur.pc = "idle",
                               !.cur.err = OnlyOneOrThree]
  /\ UNCHANGED <<fetchVars, race, rsess, dock>>

\* lines 43-59: options(repr.plot.width = WW, repr.plot.height = HH)
SetOptions ==
  /\ view.cur.pc = "options"
  /\ view' = [view EXCEPT !.cur.pc = "draw",
                          !.opts = [set |-> TRUE, sz |-> view.cur.img.sz]]
  /\ UNCHANGED <<fetchVars, race, rsess, dock>>

\* line 60: grid::grid.raster(A, ...)
Draw ==
  /\ view.cur.pc = "draw"
  /\ view' = [view EXCEPT !.cur.pc = "idle",
                          !.drawn = Append(@, view.cur.img)]
  /\ UNCHANGED <<fetchVars, race, rsess, dock>>

NextView ==
  \/ \E img \in Images, pad \in BOOLEAN : ShowInline(img, pad)
  \/ Components
  \/ SetOptions
  \/ Draw

SpecView == InitView /\ [][NextView]_vars

(* ============================ properties =============================== *)
Finished == ~Running /\ calls > 0
Returned == Finished /\ result.kind = "returned"
Target == Out(args.name)
Entry == manifest[args.name]
GoodFile(fsys) == md5sum(fsys, Target) = Entry.md5sum

\* an entry is archive-flagged when its archive field is true
ArchiveFlagged(e) == e.archive = "true"

\* C1 (as claimed): a normal return of fetch_data_one(name, verify=TRUE) for
\* an entry that is not archive-flagged leaves at the returned path a file
\* whose md5sum is the manifest's, cached or downloaded; a mismatching file
\* never survives a normal return.
C1_VerifiedOnReturn ==
  (Returned /\ args.verify /\ ~ArchiveFlagged(Entry))
    => (result.path = Target /\ GoodFile(fs))

\* the same for the entries that have no archive field at all: this holds
VerifiedOnReturn_NoArchiveField ==
  (Returned /\ args.verify /\ Entry.archive = NULL)
    => (result.path = Target /\ GoodFile(fs))

\* C2: a name that is no key of the manifest fails at the membership test,
\* before any directory is created, any download attempted or any file
\* removed: no activation starts and the cache is as it was.
C2_MissingKeyLeavesCache ==
  (calls > 0 /\ args.name \notin DOMAIN manifest)
    => /\ ~Running
       /\ result.kind = "keyerror"
       /\ fs = fs0 /\ dirs = dirs0
       /\ attempts = <<>>

C2_Witness ==
  /\ calls > 0 /\ args.name \notin DOMAIN manifest
  /\ result.kind = "keyerror"
  /\ \E n \in Keys : fs[Out(n)] # Absent

\* C3: with the file present and its md5sum equal to the manifest's, a call
\* with force=FALSE makes no download attempt, for either value of verify,
\* and returns the path of the file.
C3_Idempotent ==
  (calls > 0 /\ args.name \in DOMAIN manifest /\ ~args.force /\ GoodFile(fs0))
    => /\ attempts = <<>>
       /\ Finished => result = [kind |-> "returned", path |-> Target]

\* the second of two calls, the first of which downloaded the file
C3_Witness ==
  /\ calls = 2 /\ Returned /\ ~args.force /\ ~args.verify
  /\ GoodFile(fs0) /\ attempts = <<>>

C5_ExhaustedFails ==
  /\ (Finished /\ result.kind = "fetcherror")
       => /\ ~file_exists(fs, Target)
          /\ errmsg = CandidateUrls(Entry, stores)
          /\ attempts = errmsg
  /\ (Running /\ Top.pc = "exists" /\ ~Top.newdownload
        /\ Top.ntried = Len(Top.all_urls))
       => ~file_exists(fs, Out(Top.name))

\* the error after local stores and mirrors were all tried
C5_Witness ==
  /\ Finished /\ result.kind = "fetcherror"
  /\ Len(attempts) >= 4 /\ sawWrong

\* C6 (as claimed): whenever fetch_data_one returns normally a file exists
\* at the returned path, archive entries included.
C6_ReturnedPathExists ==
  Returned => file_exists(fs, result.path)

\* C7 (as claimed): a download that fails with an error is followed by the
\* next candidate: the loop is never left as "downloaded" on a candidate
\* whose download failed.
C7_FailureTriesNext ==
  (Running /\ Top.dl = "fail" /\ Top.pc # "md5") => ~Top.newdownload

\* C8 (as claimed): a present file with a wrong md5sum, force=FALSE,
\* verify=TRUE, entry not archive-flagged: the call invokes itself exactly
\* once, with force=TRUE, and then returns with a file whose md5sum is the
\* manifest's or fails with the exhausted-mirrors error.
StaleCall ==
  /\ calls > 0 /\ args.name \in DOMAIN manifest
  /\ ~args.force /\ args.verify
  /\ file_exists(fs0, Target) /\ ~GoodFile(fs0)

SelfHealsOnce ==
  /\ nested <= 1
  /\ Len(stack) <= 2
  /\ Len(stack) = 2 => (Top.force /\ nested = 1)
  /\ Finished =>
       /\ nested = 1
       /\ \/ result.kind = "returned" /\ GoodFile(fs)
          \/ result.kind = "fetcherror"

C8_SelfHealOnce ==
  (StaleCall /\ ~ArchiveFlagged(Entry)) => SelfHealsOnce

\* the same for the entries that have no archive field at all: this holds
SelfHealOnce_NoArchiveField ==
  (StaleCall /\ Entry.archive = NULL) => SelfHealsOnce

\* C9: an entry with a url field has that url as its only candidate: no
\* mirror and no local store is tried, and when the url yields no file with
\* the manifest's md5sum the call fails with the error naming that url.
C9_ExplicitUrlOnly ==
  (calls > 0 /\ args.name \in DOMAIN manifest /\ ~is_null(Entry.url))
    => /\ \A j \in 1..Len(stack) : stack[j].all_urls = Entry.url
       /\ \A j \in 1..Len(attempts) : attempts[j] = Entry.url[1]
       /\ (Running /\ Top.ntried > 0 /\ ~Top.newdownload
             /\ Top.pc \notin {"md5", "loop"})
            => (Top.pc = "exists" /\ ~file_exists(fs, Out(Top.name)))
       /\ (Finished /\ result.kind # "returned")
            => (result.kind = "fetcherror" /\ errmsg = Entry.url)

C9_Witness ==
  /\ Finished /\ args.name \in DOMAIN manifest /\ ~is_null(Entry.url) /\ stores # <<>>
  /\ result.kind = "fetcherror" /\ attempts = <<ExplicitUrl>>

\* C10 (as claimed): for an entry without url the candidates are one
\* file:// URL per local object store, in the order of the variable, then
\* the mirror templates in their order, hash and algorithm substituted; the
\* attempts follow that order.
ExpectedStoreUrl(d, h) == <<Lit("file://"), Dir(d), Lit("/MD5/"), HashTok(h)>>
ExpectedMirrorUrls(h) ==
  << <<Lit("http://midas3.kitware.com/...&checksum="), HashTok(h),
       Lit("&algorithm="), Lit("md5")>>,
     <<Lit("http://www.itk.org/files/ExternalData/"), Lit("md5"), Lit("/"),
       HashTok(h)>>,
     <<Lit("http://slicer.kitware.com/...&checksum="), HashTok(h),
       Lit("&algorithm="), Lit("md5")>> >>
ExpectedUrls(h, st) ==
  [j \in 1..Len(st) |-> ExpectedStoreUrl(st[j], h)] \o ExpectedMirrorUrls(h)

C10_CandidateOrder ==
  (calls > 0 /\ args.name \in DOMAIN manifest /\ is_null(Entry.url))
    => /\ \A j \in 1..Len(stack) :
            stack[j].all_urls = ExpectedUrls(Entry.md5sum, stores)
       /\ Len(attempts) <= Len(stores) + Len(RemoteMirrors)
       /\ \A j \in 1..Len(attempts) :
            attempts[j] = ExpectedUrls(Entry.md5sum, stores)[j]

\* C11 (as claimed): with k >= 1 directories in ExternalData_OBJECT_STORES
\* get_midas_servers returns k file:// templates, one per directory in the
\* order of the variable, followed by the remote mirror templates.
ExpectedStoreTemplate(d) == <<Lit("file://"), Dir(d), Lit("/MD5/"), HashSlot>>

C11_OneTemplatePerStore ==
  stores # <<>>
    => get_midas_servers(stores)
         = [j \in 1..Len(stores) |-> ExpectedStoreTemplate(stores[j])]
             \o RemoteMirrors

LastUnpack == unpackLog[Len(unpackLog)]

\* C12: for an archive-flagged entry whose download was verified in this
\* call and is a tar or zip file: on return the members are in the output
\* directory, the archive is no longer at the path it was downloaded to,
\* and the .tmp file it was renamed to is gone.
C12_ArchiveUnpacked ==
  (Returned /\ ArchiveFlagged(Entry) /\ unpackLog # <<>>
     /\ LastUnpack.fresh /\ Detect(LastUnpack.c).fmt # "none")
    => /\ Md5Of[LastUnpack.c] = Entry.md5sum
       /\ LastUnpack.did
       /\ fs[Target] \in {"member", Absent}
       /\ HasNamedMember(LastUnpack.c) => fs[Target] = "member"
       /\ fs[Extra(args.name)] = "other"
       /\ fs[Tmp(args.name)] = Absent

C12_Witness ==
  /\ Returned /\ ArchiveFlagged(Entry) /\ Len(unpackLog) = 1
  /\ LastUnpack.fresh /\ LastUnpack.c = "tarWith" /\ sawWrong
  /\ fs[Target] = "member"

\* C13 (as claimed): the unpack step is applied only to bytes that this call
\* downloaded and verified, never to a file it found at the target path.
C13_UnpackOnlyVerified ==
  \A j \in 1..Len(unpackLog) : unpackLog[j].fresh

\* C14 (as claimed): an entry is treated as an archive only when its
\* archive field is true: with the field absent or false the unpack step is
\* not applied and a cached file is verified like a plain file.
C14_ArchiveOnlyWhenTrue ==
  /\ \A j \in 1..Len(unpackLog) : unpackLog[j].archive = "true"
  /\ (Running /\ Top.pc = "unpack" /\ Top.verify /\ Top.archive # "true")
       => md5sum(fs, Out(Top.name)) = Top.md5

\* C15 (as claimed): for an archive-flagged entry whose file was not
\* downloaded by this call the hash of the file is never computed again and
\* no forced re-download is triggered.
C15_NoRehashNoRedownload ==
  \A j \in 1..Len(stack) :
    (stack[j].archive = "true" /\ ~stack[j].newdownload)
      => (~stack[j].vhash /\ nested = 0)

\* C15 (amended): for an archive-flagged entry no forced re-download is ever
\* triggered, and a call with force=FALSE on a present file downloads
\* nothing and returns, whatever the hash of the file; with verify=TRUE the
\* hash is computed on line 83 and ignored.
C15_NoRedownload ==
  (calls > 0 /\ args.name \in DOMAIN manifest /\ ArchiveFlagged(Entry))
    => /\ nested = 0
       /\ Len(stack) <= 1
       /\ (file_exists(fs0, Target) /\ ~args.force)
            => (attempts = <<>> /\ (Finished => result.kind = "returned"))

\* the hash of a mismatching cached archive was computed and nothing followed
C15_Witness ==
  /\ Running /\ Top.pc = "unpack" /\ Top.archive = "true"
  /\ Top.vhash /\ ~Top.newdownload
  /\ md5sum(fs, Out(Top.name)) # Top.md5
  /\ nested = 0 /\ attempts = <<>>

\* C16: for an archive-flagged entry whose file is recognised neither as tar
\* nor as zip the unpack step changes nothing and raises nothing: the file
\* stays, no .tmp file appears, the call returns the path; is.tar is asked
\* before is.zip.
C16_UnrecognisedLeftAlone ==
  /\ \A j \in 1..Len(unpackLog) :
       /\ unpackLog[j].det \in {<<"tar">>, <<"tar", "zip">>}
       /\ ~unpackLog[j].did => unpackLog[j].det = <<"tar", "zip">>
  /\ (calls > 0 /\ args.name \in DOMAIN manifest /\ ArchiveFlagged(Entry)
        /\ unpackLog # <<>> /\ Detect(LastUnpack.c).fmt = "none")
       => /\ ~LastUnpack.did
          /\ fs[Target] = LastUnpack.c
          /\ fs[Tmp(args.name)] = Absent
          /\ fs[Extra(args.name)] = fs0[Extra(args.name)]
          /\ Finished => result = [kind |-> "returned", path |-> Target]

C16_Witness ==
  /\ Returned /\ ArchiveFlagged(Entry) /\ Len(unpackLog) = 1
  /\ ~LastUnpack.did /\ LastUnpack.fresh /\ LastUnpack.c = "plainA"
  /\ fs[Target] = "plainA"

\* C18: once a download leaves a file with the manifest's md5sum the
\* activation sets newdownload, leaves the loop, and no further download is
\* attempted in the call.
C18_MarkedAndOut ==
  \A j \in 1..Len(stack) :
    /\ stack[j].newdownload => stack[j].pc \in {"exists", "verify", "unpack", "ret"}
    /\ (stack[j].pc = "exists" /\ stack[j].ntried > 0 /\ j = Len(stack)
          /\ md5sum(fs, Out(stack[j].name)) = stack[j].md5)
         => stack[j].newdownload

C18_NoLaterAttempt ==
  (Running /\ \E j \in 1..Len(stack) : stack[j].newdownload)
    => attempts' = attempts

C18_StopsAfterMatch == [](C18_MarkedAndOut) /\ [][C18_NoLaterAttempt]_vars

\* the first candidate matched and later candidates were left untried
C18_Witness ==
  /\ Running /\ Top.pc = "ret" /\ Top.newdownload
  /\ Len(attempts) = 1 /\ Len(Top.all_urls) >= 3 /\ Top.force

\* C19 (as claimed): a call with force=FALSE never overwrites, renames or
\* deletes a cache file of an entry that is not archive-flagged when the
\* file is present with the manifest's md5sum.
C19_CacheImmutable ==
  (calls > 0 /\ args.name \in DOMAIN manifest /\ ~args.force
     /\ ~ArchiveFlagged(Entry) /\ GoodFile(fs0))
    => fs[Target] = fs0[Target]

\* the same for the entries that have no archive field at all: this holds
CacheImmutable_NoArchiveField ==
  (calls > 0 /\ args.name \in DOMAIN manifest /\ ~args.force
     /\ Entry.archive = NULL /\ GoodFile(fs0))
    => fs[Target] = fs0[Target]

\* C17: fetch_data_all calls fetch_data_one with force=FALSE once for every
\* key of the manifest, in manifest order; the first call that fails makes
\* fetch_data_all fail with that error, and no call is made for any key
\* after the failing one.
C17_FetchAllFailFast ==
  all.st # "idle" =>
    /\ Len(all.made) <= Len(names(manifest))
    /\ calls - all.base = Len(all.made)
    /\ \A j \in 1..Len(all.made) :
         /\ all.made[j].name = names(manifest)[j]
         /\ all.made[j].force = FALSE
         /\ j < Len(all.made) => all.made[j].res = "returned"
    /\ Running => /\ all.made # <<>>
                  /\ stack[1].name = all.made[Len(all.made)].name
                  /\ stack[1].force = FALSE
                  /\ stack[1].verify = all.verify
    /\ all.st = "done" =>
         /\ Len(all.made) = Len(names(manifest))
         /\ \A j \in 1..Len(all.made) : all.made[j].res = "returned"
    /\ all.st = "failed" =>
         /\ all.made # <<>>
         /\ all.made[Len(all.made)].res # "returned"
         /\ all.err = all.made[Len(all.made)].res
         /\ all.err = result.kind
    /\ (BetweenCalls /\ all.made # <<>> /\ result.kind # "returned") =>
         ENABLED FetchAllFail /\ ~ENABLED FetchAllNext /\ ~ENABLED FetchAllDone

\* the call for the first key failed and none was made for the second
C17_Witness ==
  /\ all.st = "failed"
  /\ Len(all.made) = 1
  /\ Len(names(manifest)) = 2
  /\ all.err = "fetcherror"
  /\ calls - all.base = 1

\* every key fetched, in file order
C17_WitnessDone ==
  /\ all.st = "done"
  /\ Len(all.made) = 2
  /\ all.made[1].name = "vol" /\ all.made[2].name = "img"

\* the candidate URLs of an entry without url whose hash is h under sha512
ExpectedShaUrls(h, st) ==
  gsub(AlgoSlot, Lit("sha512"),
       gsub(HashSlot, HashTok(h), get_midas_servers(st)))

ShaCall == calls > 0 /\ args.name \in DOMAIN manifest /\ Entry.sha512 # NULL

\* C20: the hash algorithm used to verify an entry is the one named by the
\* entry's hash field: an entry that declares its hash under sha512 is
\* downloaded from URLs built with that hash and verified with SHA-512,
\* just as an entry with an md5sum field is verified with MD5: the call
\* ends with the path or with the download error, a file it downloaded and
\* returned has the SHA-512 digest of the manifest, and the URLs tried for
\* an entry without url carry that digest.
C20_HashFieldNamesAlgorithm ==
  ShaCall =>
    /\ result.kind \in {"running", "returned", "fetcherror"}
    /\ (Returned /\ attempts # <<>> /\ Entry.archive = NULL) =>
         sha512sum(fs, Target) = Entry.sha512
    /\ is_null(Entry.url) =>
         \A j \in 1..Len(attempts) :
           \E i \in 1..Len(ExpectedShaUrls(Entry.sha512, stores)) :
             attempts[j] = ExpectedShaUrls(Entry.sha512, stores)[i]

\* what the code does with an entry that has its hash under sha512: without
\* url the call ends in an R error before anything is tried; with a url
\* every download is followed by an R error that leaves the file unchecked;
\* a call never returns after a download and never with verify=TRUE
ShaEntryBehaviour ==
  (ShaCall /\ Finished) =>
    /\ is_null(Entry.url) => result.kind = "rerror" /\ attempts = <<>> /\ fs = fs0
    /\ attempts # <<>> => result.kind = "rerror"
    /\ Returned => ~args.verify /\ ~args.force /\ fs0[Target] # Absent

\* a downloaded file of a sha512 entry is left in the cache unverified
ShaEntryUnverifiedFile ==
  /\ ShaCall /\ Finished /\ result.kind = "rerror"
  /\ attempts # <<>>
  /\ fs[Target] # Absent
  /\ sha512sum(fs, Target) # Entry.sha512

\* C23: the self-healing recursion of fetch_data_one is at most one level
\* deep: the nested call made with force=TRUE never reaches its own
\* stale-cache verification step with a file that was not freshly
\* downloaded, so it never invokes fetch_data_one again.
C23_OneLevelDeep ==
  /\ Len(stack) <= 2
  /\ nested <= 1
  /\ \A j \in 2..Len(stack) :
       /\ stack[j].force
       /\ stack[j].pc \in {"verify", "unpack", "ret"} => stack[j].newdownload
       /\ stack[j].pc = "verify" => ~NeedsRedownload(stack[j], fs)

\* the nested call stands at its verification step after a mirror that sent
\* wrong bytes and one that sent the right ones
C23_Witness ==
  /\ Len(stack) = 2
  /\ stack[2].pc = "verify"
  /\ stack[2].ntried >= 2
  /\ nested = 1

NoDuplicates(sq) == \A i, j \in 1..Len(sq) : sq[i] = sq[j] => i = j

\* the candidate URLs of the entry the current call is about
CallUrls == CandidateUrls(Details(manifest, args.name), stores)

AttemptsWithinCandidates ==
  /\ NoDuplicates(attempts)
  /\ \A j \in 1..Len(attempts) : \E i \in 1..Len(CallUrls) : attempts[j] = CallUrls[i]

\* C24: every top-level fetch_data_one call terminates, returning a path or
\* failing with an error, and makes at most one download attempt per
\* candidate URL in total, the attempts of the nested forced re-download
\* included, whatever the mirrors serve.
C24_TerminatesOneAttemptPerUrl ==
  /\ Running ~> (~Running /\ result.kind \in {"returned", "fetcherror"})
  /\ [](calls > 0 /\ KeyPresent(manifest, args.name) => AttemptsWithinCandidates)

\* a call whose nested re-download tried every candidate and gave up
C24_Witness ==
  /\ Finished
  /\ nested = 1
  /\ result.kind = "fetcherror"
  /\ Len(attempts) = Len(CallUrls)
  /\ Len(attempts) >= 3

\* a fetch_data call with the default verify for a key whose file was at
\* the target path when the call was made
DefaultCallOnPresentFile ==
  /\ calls > 0
  /\ KeyPresent(manifest, args.name)
  /\ args.verify = FetchDataVerifyDefault
  /\ fs0[Target] # Absent

\* C27: fetch_data(name) calls fetch_data_one with verify=FALSE and
\* force=FALSE by default, so for a file that is already present at the
\* target path it computes no hash, downloads nothing and returns the path,
\* even when the file's content does not match the manifest hash.
C27_FetchDataTrustsCache ==
  /\ calls > 0 => ~args.force
  /\ DefaultCallOnPresentFile =>
       /\ ~args.verify
       /\ attempts = <<>>
       /\ nested = 0
       /\ result.kind \in {"running", "returned"}
       /\ \A j \in 1..Len(stack) :
            /\ ~stack[j].force /\ ~stack[j].verify
            /\ stack[j].pc # "md5" /\ stack[j].ntried = 0 /\ ~stack[j].vhash
       /\ Finished => result.path = Target

\* fetch_data returned the path of a file that does not match the manifest
C27_Witness ==
  /\ DefaultCallOnPresentFile
  /\ Returned
  /\ Entry.archive = NULL
  /\ fs[Target] = fs0[Target]
  /\ ~GoodFile(fs)

\* C25: during one fetch_data_all invocation the manifest is read once and
\* every entry is resolved against that same snapshot.
C25_ManifestReadOnce ==
  all.st # "idle" => ManifestReads = 1

\* the files of the keys whose fetch_data_one calls came before the current
\* one are as they were when the current call was made
EarlierFilesKept ==
  \A j \in 1..(Len(all.made) - 1) :
    \A p \in {Out(all.made[j].name), Tmp(all.made[j].name),
              Extra(all.made[j].name)} : fs[p] = fs0[p]

\* C26: when fetch_data_all fails on some key, the files fetched for the
\* keys processed before it are left in the cache directory exactly as
\* those fetches produced them: no rollback, no clean-up.
C26_NoRollback ==
  all.st \in {"running", "failed"} => EarlierFilesKept

\* the second key failed after the first key's file had been downloaded
C26_Witness ==
  /\ all.st = "failed"
  /\ Len(all.made) = 2
  /\ all.made[1].res = "returned"
  /\ all.made[1].tried > 0
  /\ all.made[2].tried > 0
  /\ fs[Out(all.made[1].name)] # Absent
  /\ fs[Out(all.made[2].name)] = Absent

\* C22: fetch_data_one provides no mutual exclusion on the cache directory:
\* of two concurrent invocations for the same name and directory, one can
\* delete or overwrite the file the other has just verified, so that an
\* invocation returns normally while the file at its returned path is
\* missing or does not match the manifest hash; and for an entry that is
\* not unpacked that is the only way a file verified in the call goes bad.
C22_BadReturnByRaceOnly ==
  \A p \in Procs :
    (race.ret[p] = "freshbad" /\ manifest[RaceName].archive = NULL) =>
      race.hit[p]

\* p verified its download, q then removed or overwrote the file, and p
\* returned normally with the path
C22_Witness ==
  \E p \in Procs :
    /\ race.st[p] = "returned"
    /\ race.ret[p] = "freshbad"
    /\ race.hit[p]
    /\ manifest[RaceName].archive = NULL
    /\ md5sum(fs, Out(RaceName)) # manifest[RaceName].md5sum

\* the wrapper setup_for_testing.R binds: one shrink by ShrinkFactor of what
\* SimpleITK::ReadImage returns
TestingWrapper == <<ShrinkFactor>>

\* C21: sourcing setup_for_testing.R replaces ReadImage by a wrapper exactly
\* when SIMPLE_ITK_MEMORY_CONSTRAINED_ENVIRONMENT is on (set to a non-empty
\* string); the wrapper calls the original SimpleITK ReadImage once with the
\* unchanged arguments and returns the shrunk result of that read; when the
\* variable is off ReadImage is left unmodified.
C21_ReadImageWrapped ==
  /\ rsess.last.op = "source" =>
       /\ rsess.ReadImage = rsess.last.after
       /\ rsess.last.env # "" => rsess.last.after = TestingWrapper
       /\ rsess.last.env = "" => rsess.last.after = rsess.last.before
  /\ (rsess.last.op = "call" /\ rsess.last.before = TestingWrapper) =>
       /\ rsess.last.orig = <<rsess.last.args>>
       /\ rsess.last.res =
            Shrink(SimpleITKReadImage(rsess.last.args), ShrinkFactor)

\* the script was sourced a second time with the variable on, over a
\* binding that was a wrapper already
C21_Witness ==
  /\ rsess.last.op = "source"
  /\ rsess.last.env # ""
  /\ rsess.last.before # OriginalReadImage
  /\ rsess.last.after = TestingWrapper

\* the wrapper was called and returned a smaller image
C21_WitnessCall ==
  /\ rsess.last.op = "call"
  /\ rsess.last.before = TestingWrapper
  /\ rsess.last.res.size < SimpleITKReadImage(rsess.last.args).size

\* C28: in run.sh a container left running by an earlier invocation of the
\* script is stopped before the script starts its own container: the name
\* tested and stopped before docker run is the name under which docker run
\* starts the container, so that docker run never meets a container of an
\* earlier invocation holding the name and port 8888.
C28_EarlierContainerStopped ==
  /\ dock.inv.pc = "run" => RunName \notin dock.running
  /\ dock.out \notin {"nameconflict", "portconflict"}

\* what the script does achieve: a running container called
\* simpleitk-notebooks is stopped before docker run
OldNameStopped ==
  dock.inv.pc \in {"run", "serving"} /\ dock.inv.hasDocker =>
    StopName \notin dock.running

\* the second invocation found the container of the first still running
\* and its docker run was refused
SecondRunRefused ==
  /\ dock.runs = 2
  /\ dock.left
  /\ dock.out = "nameconflict"
  /\ RunName \in dock.running

\* C29: show_inline fails with the error "Only deals with 1 or 3 component
\* images" for any image whose number of components is neither 1 nor 3,
\* and it does so before changing the repr.plot.width / repr.plot.height
\* options and before drawing anything.
C29_RejectsOtherComponentCounts ==
  view.n > 0 =>
    /\ view.cur.img.ncomp \notin {1, 3} =>
         /\ view.cur.pc \in {"ncomp", "idle"}
         /\ view.cur.pc = "idle" => view.cur.err = OnlyOneOrThree
         /\ view.opts = view.opts0
         /\ view.drawn = view.drawn0
    /\ view.cur.img.ncomp \in {1, 3} => view.cur.err = "none"

\* an image of two or four components was refused after an earlier image
\* had been drawn
C29_Witness ==
  /\ view.n = 2
  /\ view.cur.pc = "idle"
  /\ view.cur.img.ncomp \notin {1, 3}
  /\ view.cur.err = OnlyOneOrThree
  /\ view.opts.set
  /\ Len(view.drawn) = 1

====
